---- MODULE Spec2Model ----
(***************************************************************************)
(* Model of scripts/build-and-deploy.py, the git post-receive hook that    *)
(* builds and pushes OCI images with podman.                               *)
(*                                                                         *)
(* Text is modelled as a sequence of one-character strings, so that        *)
(* slicing, prefix tests, substring tests and concatenation are computed   *)
(* the way the Python code computes them.                                  *)
(***************************************************************************)
EXTENDS Integers, Sequences, FiniteSets, TLC

VARIABLES pc, stdin, pos, opts, ref, config, work_dir, base_image, built_images,
          vi, tags, build_args, build_contexts, ti, pi, pending, results,
          calls, raised, exit_code, printed

vars == <<pc, stdin, pos, opts, ref, config, work_dir, base_image, built_images,
          vi, tags, build_args, build_contexts, ti, pi, pending, results,
          calls, raised, exit_code, printed>>

\* ─── Bounds ────────────────────────────────────────────────────────────────

\* Largest number of lines git writes to the hook's stdin in one invocation.
MaxLines == 2

\* ─── Text helpers (Python str operations) ──────────────────────────────────

\* "c" * n
Rep(c, n) == [i \in 1..n |-> c]

\* s[:n]
Prefix(s, n) == SubSeq(s, 1, IF n < Len(s) THEN n ELSE Len(s))

\* s.startswith(p)
StartsWith(s, p) == Len(s) >= Len(p) /\ SubSeq(s, 1, Len(p)) = p

\* s.removeprefix(p)
RemovePrefix(s, p) == IF StartsWith(s, p) THEN SubSeq(s, Len(p) + 1, Len(s)) ELSE s

\* p in s
Contains(s, p) == \E i \in 1..(Len(s) - Len(p) + 1) : SubSeq(s, i, i + Len(p) - 1) = p

\* s.replace(a, b) for single characters a, b
ReplaceChar(s, a, b) == [i \in 1..Len(s) |-> IF s[i] = a THEN b ELSE s[i]]

Whitespace == {" ", "\t", "\n"}

\* line.strip().split(): the maximal runs of non-whitespace characters.
TokenStarts(s) == {i \in 1..Len(s) : s[i] \notin Whitespace /\ (i = 1 \/ s[i - 1] \in Whitespace)}

TokenEnd(s, i) ==
    CHOOSE j \in i..Len(s) :
        /\ \A k \in i..j : s[k] \notin Whitespace
        /\ (j = Len(s) \/ s[j + 1] \in Whitespace)

Split(s) ==
    LET starts == TokenStarts(s)
        nth(m) == CHOOSE i \in starts : Cardinality({j \in starts : j < i}) = m - 1
    IN  [m \in 1..Cardinality(starts) |-> SubSeq(s, nth(m), TokenEnd(s, nth(m)))]

\* Python's None where a str is expected (no text is equal to it).
None == <<"None">>

\* Python's None where a dict is expected.
NoDict == [none |-> TRUE]

\* Python truthiness of an optional string: None and "" are falsy.
Truthy(x) == x # None /\ x # <<>>

\* dict.get(key, default)
Get(d, key, default) == IF key \in DOMAIN d THEN d[key] ELSE default

\* ─── The repository (git object store) and the pushed lines ────────────────

ShaLen == 7

RevLen == 40

Digits == <<"1", "2", "3", "4", "5", "6", "7", "8", "9">>

\* Nine commits; commit k hashes to abc000k followed by 33 f's.
Rev(k) == <<"a", "b", "c", "0", "0", "0", Digits[k]>> \o Rep("f", RevLen - ShaLen)

ZeroRev == Rep("0", RevLen)

NumRevs == Len(Digits)

Main == <<>>

Lite == <<"-", "l">>

S6 == <<"-", "s">>

\* Content of .oci-build.json at commit k (None: the file is not in the tree).
Descriptor(k) ==
    CASE k = 1 -> [registry |-> <<"r">>, image_name |-> <<"a">>,
                   variants |-> << [suffix |-> Main, dockerfile |-> "Dockerfile", target |-> ""],
                                   [suffix |-> Lite, dockerfile |-> "lite.dockerfile"] >>]
      [] k = 2 -> [registry |-> <<"r">>, image_name |-> <<"a">>,
                   platforms |-> <<"linux/amd64">>,
                   base |-> [dockerfile |-> "base.dockerfile"],
                   variants |-> << [suffix |-> Main, dockerfile |-> "Dockerfile", target |-> "final"],
                                   [suffix |-> Lite, dockerfile |-> "lite.dockerfile",
                                    contexts |-> << <<"main", Main>> >>] >>]
      [] k = 3 -> [registry |-> <<"r">>, image_name |-> <<"a">>,
                   platforms |-> <<"linux/amd64", "linux/arm64">>,
                   base |-> [dockerfile |-> "base.dockerfile"],
                   variants |-> << [suffix |-> Main, dockerfile |-> "Dockerfile", target |-> "final"],
                                   [suffix |-> Lite, dockerfile |-> "lite.dockerfile",
                                    contexts |-> << <<"main", Main>> >>] >>]
      [] k = 4 -> [registry |-> <<"r">>,
                   base |-> [dockerfile |-> "base.dockerfile"],
                   variants |-> << [suffix |-> Main, dockerfile |-> "Dockerfile"],
                                   [suffix |-> S6, dockerfile |-> "Dockerfile", target |-> "final-s6",
                                    contexts |-> << <<"me", S6>> >>] >>]
      [] k = 5 -> [image_name |-> <<"a">>, platforms |-> <<"linux/arm64">>]
      [] k = 6 -> [registry |-> <<"r">>, image_name |-> <<"a">>,
                   variants |-> << [suffix |-> Main, dockerfile |-> "Dockerfile",
                                    contexts |-> << <<"x", Lite>> >>],
                                   [suffix |-> Lite, dockerfile |-> "lite.dockerfile"] >>]
      [] k = 7 -> [registry |-> <<"r">>, image_name |-> <<"a">>,
                   base |-> [dockerfile |-> "base.dockerfile"],
                   variants |-> << [suffix |-> Main, dockerfile |-> "Dockerfile"],
                                   [suffix |-> Lite, dockerfile |-> "lite.dockerfile",
                                    contexts |-> << <<"base", Main>> >>] >>]
      [] k = 8 -> [registry |-> <<"r">>, image_name |-> <<"a">>, platforms |-> <<>>]
      [] OTHER -> NoDict

\* "version" of package.json at commit k (None: no package.json in the tree,
\* empty: a package.json that declares no version or an empty one).
PackageVersion(k) ==
    CASE k \in {1, 3} -> <<"1", ".", "0">>
      [] k = 2 -> <<"2", ".", "0">>
      [] k = 7 -> <<>>
      [] OTHER -> None

RevIndex(rev) == IF \E k \in 1..NumRevs : Rev(k) = rev
                 THEN CHOOSE k \in 1..NumRevs : Rev(k) = rev
                 ELSE 0

RefsHeads == <<"r", "e", "f", "s", "/", "h", "e", "a", "d", "s", "/">>

RefsTags == <<"r", "e", "f", "s", "/", "t", "a", "g", "s", "/">>

\* Refname under which commit k is pushed.
RefName(k) ==
    CASE k = 2 -> RefsTags \o <<"v", "1">>
      [] k = 4 -> RefsTags \o <<"v", "1", "-", "r", "c", "1">>
      [] k = 6 -> RefsHeads \o <<"m">>
      [] OTHER -> RefsHeads \o <<"f", "/", "x">>

Sp == <<" ">>

Nl == <<"\n">>

\* The lines git may write to the hook's stdin: one update per commit, a
\* deletion, and two lines that are not three tokens long.
StdinLine(n) ==
    CASE n \in 1..NumRevs -> ZeroRev \o Sp \o Rev(n) \o Sp \o RefName(n) \o Nl
      [] n = NumRevs + 1 -> Rev(1) \o Sp \o ZeroRev \o Sp \o RefName(1) \o Nl
      [] n = NumRevs + 2 -> Rev(1) \o Sp \o RefName(1) \o Nl
      [] OTHER -> Rev(1) \o Sp \o Rev(2) \o Sp \o RefName(2) \o Sp \o <<"x">> \o Nl

NumLines == NumRevs + 3

RepoName == <<"a", "p", "p">>

\* The states of the two gitolite per-repo options.
OptionStates ==
    { ("oci.registry" :> None) @@ ("oci.image-name" :> None),
      ("oci.registry" :> <<"o">>) @@ ("oci.image-name" :> <<"i">>) }

\* ─── PushRef ───────────────────────────────────────────────────────────────

short_sha(r) == Prefix(r.new_rev, ShaLen)

\* Mutant: the deletion test looks at the old revision.
is_delete_OldRev(r) == r.old_rev = Rep("0", RevLen)

is_delete(r) == r.new_rev = Rep("0", RevLen)

is_tag(r) == StartsWith(r.refname, RefsTags)

tag(r) == RemovePrefix(r.refname, RefsTags)

\* Mutant: the branch name is used as it is, slashes included.
branch_Raw(r) == RemovePrefix(r.refname, RefsHeads)

branch(r) == ReplaceChar(RemovePrefix(r.refname, RefsHeads), "/", "-")

\* Mutant: every tag that starts with "v" is a release.
is_release_PrefixOnly(r) == is_tag(r) /\ StartsWith(tag(r), <<"v">>)

is_release(r) == is_tag(r) /\ StartsWith(tag(r), <<"v">>) /\ ~Contains(tag(r), <<"-", "r", "c">>)

is_rc(r) == is_tag(r) /\ Contains(tag(r), <<"-", "r", "c">>)

image_tags(r, base, suffix) ==
    LET full_base == base \o suffix
        colon == <<":">>
    IN  << full_base \o colon \o short_sha(r) >> \o
        ( IF is_release(r)
          THEN << full_base \o colon \o tag(r), full_base \o colon \o <<"l", "a", "t", "e", "s", "t">> >>
          ELSE IF is_rc(r)
          THEN << full_base \o colon \o tag(r), full_base \o colon \o <<"n", "e", "x", "t">> >>
          ELSE << full_base \o colon \o branch(r), full_base \o colon \o <<"e", "d", "g", "e">> >> )

\* ─── BuildConfig ───────────────────────────────────────────────────────────

\* _gitolite_option: the stripped option value, None when git config fails.
gitolite_option(o, key) == o[key]

\* raw["registry"] raises KeyError when the descriptor has no registry.
LoadRaises(o, raw) == ~Truthy(gitolite_option(o, "oci.registry")) /\ "registry" \notin DOMAIN raw

\* Mutant: the descriptor's registry and image name win over the options.
LoadConfig_DescriptorFirst(o, raw) ==
    [ registry   |-> IF "registry" \in DOMAIN raw
                     THEN raw.registry ELSE gitolite_option(o, "oci.registry"),
      image_name |-> IF "image_name" \in DOMAIN raw
                     THEN raw.image_name
                     ELSE IF Truthy(gitolite_option(o, "oci.image-name"))
                     THEN gitolite_option(o, "oci.image-name")
                     ELSE RepoName,
      platforms  |-> Get(raw, "platforms", <<"linux/amd64">>),
      work_dir   |-> Get(raw, "work_dir", "/opt/builds/app-checkout"),
      variants   |-> Get(raw, "variants",
                         << [suffix |-> <<>>, dockerfile |-> "Dockerfile", target |-> ""] >>),
      base       |-> Get(raw, "base", NoDict) ]

\* BuildConfig.load once the descriptor text has been read and parsed.
LoadConfig(o, raw) ==
    [ registry   |-> IF Truthy(gitolite_option(o, "oci.registry"))
                     THEN gitolite_option(o, "oci.registry") ELSE raw.registry,
      image_name |-> IF Truthy(gitolite_option(o, "oci.image-name"))
                     THEN gitolite_option(o, "oci.image-name")
                     ELSE Get(raw, "image_name", RepoName),
      platforms  |-> Get(raw, "platforms", <<"linux/amd64">>),
      work_dir   |-> Get(raw, "work_dir", "/opt/builds/app-checkout"),
      variants   |-> Get(raw, "variants",
                         << [suffix |-> <<>>, dockerfile |-> "Dockerfile", target |-> ""] >>),
      base       |-> Get(raw, "base", NoDict) ]

image_base(c) == c.registry \o <<"/">> \o c.image_name

is_multi_platform(c) == Len(c.platforms) > 1

has_base(c) == c.base # NoDict

\* ─── Checkout and build arguments ──────────────────────────────────────────

\* checkout: tar extracts the commit's tree over whatever the reused work
\* directory already holds; files the commit does not contain stay in place.
Extract(dir, k) ==
    [dir EXCEPT !.package_json =
        IF PackageVersion(k) # None THEN PackageVersion(k) ELSE dir.package_json]

\* Mutant: COMMIT_HASH is left out of the build arguments.
read_build_args_NoHash(dir, sha) ==
    IF dir.package_json # None /\ dir.package_json # <<>>
    THEN ("VERSION" :> dir.package_json)
    ELSE <<>>

\* read_build_args: the --build-arg dict.
read_build_args(dir, sha) ==
    IF dir.package_json # None /\ dir.package_json # <<>>
    THEN ("COMMIT_HASH" :> sha) @@ ("VERSION" :> dir.package_json)
    ELSE ("COMMIT_HASH" :> sha)

\* read_build_args also stamps .commit_hash.txt.
Stamp(dir, sha) == [dir EXCEPT !.commit_hash = sha]

\* ─── Build orchestration helpers ───────────────────────────────────────────

\* Mutant: the local base tag does not carry the short SHA.
local_tag_NoSha(sha) == <<"o", "t", "s", "-", "b", "a", "s", "e", ":">>

\* build_base: the local tag "ots-base:{short_sha}".
local_tag(sha) == <<"o", "t", "s", "-", "b", "a", "s", "e", ":">> \o sha

\* variant.get("contexts", {}) as the list of (context_name, dep_suffix) items.
variant_contexts(variant) == Get(variant, "contexts", <<>>)

\* What resolve_contexts raises when a dep_suffix is not in built_images.
RuntimeError == [raises |-> "RuntimeError"]

\* Mutant: a producer that has not been built is skipped instead of raising.
resolve_contexts_SkipMissing(variant, base, built) ==
    LET vc == variant_contexts(variant)
        ready == {i \in 1..Len(vc) : vc[i][2] \in DOMAIN built}
        declared == {vc[i][1] : i \in ready}
        names == declared \cup (IF Truthy(base) THEN {"base"} ELSE {})
        dep(name) == vc[CHOOSE i \in ready : vc[i][1] = name][2]
    IN  IF names = {} THEN NoDict
        ELSE [name \in names |-> IF name \in declared THEN built[dep(name)] ELSE base]

\* Mutant: the base image is not injected into the contexts.
resolve_contexts_NoBase(variant, base, built) ==
    LET vc == variant_contexts(variant)
        declared == {vc[i][1] : i \in 1..Len(vc)}
        dep(name) == vc[CHOOSE i \in 1..Len(vc) : vc[i][1] = name][2]
    IN  IF \E i \in 1..Len(vc) : vc[i][2] \notin DOMAIN built THEN RuntimeError
        ELSE IF declared = {} THEN NoDict
        ELSE [name \in declared |-> built[dep(name)]]

\* resolve_contexts: the {context_name: image} dict, None when it is empty,
\* RuntimeError when a declared dep_suffix has not been built.
resolve_contexts(variant, base, built) ==
    LET vc == variant_contexts(variant)
        declared == {vc[i][1] : i \in 1..Len(vc)}
        names == declared \cup (IF Truthy(base) THEN {"base"} ELSE {})
        dep(name) == vc[CHOOSE i \in 1..Len(vc) : vc[i][1] = name][2]
    IN  IF \E i \in 1..Len(vc) : vc[i][2] \notin DOMAIN built THEN RuntimeError
        ELSE IF names = {} THEN NoDict
        ELSE [name \in names |-> IF name \in declared THEN built[dep(name)] ELSE base]

\* label = suffix or "main"
Label(variant) == IF variant.suffix # <<>> THEN variant.suffix ELSE <<"m", "a", "i", "n">>

BaseLabel == <<"b", "a", "s", "e">>

CurVariant == config.variants[vi]

\* One external command as the hook issued it: the stdin line and variant it
\* was issued for, the image, tag or revision it names, and its outcome.
Call(cmd, v, target, ok) ==
    [cmd |-> cmd, line |-> pos, variant |-> v, target |-> target,
     platform |-> "", tags |-> <<>>, contexts |-> NoDict, build_args |-> <<>>,
     ok |-> ok]

\* A podman build of the current variant.
BuildCall(platform, tgs, ok) ==
    [Call("build", vi, IF tgs = <<>> THEN tags[1] ELSE <<>>, ok)
        EXCEPT !.platform = platform, !.tags = tgs,
               !.contexts = build_contexts, !.build_args = build_args]

\* ─── Initial state ─────────────────────────────────────────────────────────

NoRef == [old_rev |-> <<>>, new_rev |-> <<>>, refname |-> <<>>]

Init ==
    /\ pc = "read"
    /\ stdin \in UNION {[1..n -> 1..NumLines] : n \in 0..MaxLines}
    /\ pos = 0
    /\ opts \in OptionStates
    /\ ref = NoRef
    /\ config = NoDict
    /\ work_dir = [package_json |-> None, commit_hash |-> None]
    /\ base_image = None
    /\ built_images = <<>>
    /\ vi = 0
    /\ tags = <<>>
    /\ build_args = <<>>
    /\ build_contexts = NoDict
    /\ ti = 0
    /\ pi = 0
    /\ pending = FALSE
    /\ results = <<>>
    /\ calls = <<>>
    /\ raised = "none"
    /\ exit_code = -1
    /\ printed = FALSE

\* ─── Hook entrypoint: main() ───────────────────────────────────────────────

\* for line in sys.stdin: parse the line, skip malformed lines and deletions.
ReadLine ==
    /\ pc = "read"
    /\ pos < Len(stdin)
    /\ pos' = pos + 1
    /\ LET parts == Split(StdinLine(stdin[pos + 1]))
           r == [old_rev |-> parts[1], new_rev |-> parts[2], refname |-> parts[3]]
       IN  IF Len(parts) # 3
           THEN pc' = pc /\ ref' = ref
           ELSE /\ ref' = r
                /\ pc' = IF is_delete(r) THEN "read" ELSE "load"
    /\ UNCHANGED <<stdin, opts, config, work_dir, base_image, built_images, vi, tags,
                   build_args, build_contexts, ti, pi, pending, results, calls,
                   raised, exit_code, printed>>

\* Mutant: a config loaded for an earlier line is used again.
Load_Cached ==
    /\ pc = "load"
    /\ LET raw == Descriptor(RevIndex(ref.new_rev))
       IN  /\ calls' = Append(calls, Call("show", 0, ref.new_rev, raw # NoDict))
           /\ IF raw = NoDict
              THEN config' = NoDict /\ pc' = "read" /\ UNCHANGED <<raised, exit_code>>
              ELSE IF LoadRaises(opts, raw)
              THEN config' = config /\ pc' = "exited" /\ raised' = "KeyError" /\ exit_code' = 1
              ELSE config' = (IF config # NoDict THEN config ELSE LoadConfig(opts, raw))
                   /\ pc' = "checkout"
                   /\ UNCHANGED <<raised, exit_code>>
    /\ UNCHANGED <<stdin, pos, opts, ref, work_dir, base_image, built_images, vi, tags,
                   build_args, build_contexts, ti, pi, pending, results, printed>>

\* Mutant: the failure of git show is not caught.
Load_ShowRaises ==
    /\ pc = "load"
    /\ LET raw == Descriptor(RevIndex(ref.new_rev))
       IN  /\ calls' = Append(calls, Call("show", 0, ref.new_rev, raw # NoDict))
           /\ IF raw = NoDict
              THEN config' = config /\ pc' = "exited" /\ raised' = "GitCommandError"
                   /\ exit_code' = 1
              ELSE IF LoadRaises(opts, raw)
              THEN config' = config /\ pc' = "exited" /\ raised' = "KeyError" /\ exit_code' = 1
              ELSE config' = LoadConfig(opts, raw) /\ pc' = "checkout"
                   /\ UNCHANGED <<raised, exit_code>>
    /\ UNCHANGED <<stdin, pos, opts, ref, work_dir, base_image, built_images, vi, tags,
                   build_args, build_contexts, ti, pi, pending, results, printed>>

\* BuildConfig.load(repo, ref.new_rev): git show of the descriptor at the
\* pushed revision, then the gitolite overrides.
Load ==
    /\ pc = "load"
    /\ LET raw == Descriptor(RevIndex(ref.new_rev))
       IN  /\ calls' = Append(calls, Call("show", 0, ref.new_rev, raw # NoDict))
           /\ IF raw = NoDict
              THEN config' = NoDict /\ pc' = "read" /\ UNCHANGED <<raised, exit_code>>
              ELSE IF LoadRaises(opts, raw)
              THEN config' = config /\ pc' = "exited" /\ raised' = "KeyError" /\ exit_code' = 1
              ELSE config' = LoadConfig(opts, raw) /\ pc' = "checkout"
                   /\ UNCHANGED <<raised, exit_code>>
    /\ UNCHANGED <<stdin, pos, opts, ref, work_dir, base_image, built_images, vi, tags,
                   build_args, build_contexts, ti, pi, pending, results, printed>>

\* Where main() goes once variant vi is behind it.
AfterVariants(n) == IF n <= Len(config.variants) THEN "variant" ELSE "finally"

\* Mutant: the built-image map of the line before is carried over.
Checkout_KeepMap ==
    /\ pc = "checkout"
    /\ \E ok \in BOOLEAN :
        /\ calls' = Append(calls, Call("archive", 0, ref.new_rev, ok))
        /\ IF ok
           THEN /\ work_dir' = Extract(work_dir, RevIndex(ref.new_rev))
                /\ base_image' = None
                /\ built_images' = built_images
                /\ vi' = 1
                /\ pc' = IF has_base(config) THEN "base" ELSE AfterVariants(1)
                /\ UNCHANGED <<raised, exit_code>>
           ELSE /\ raised' = "CalledProcessError"
                /\ exit_code' = 1
                /\ pc' = "exited"
                /\ UNCHANGED <<work_dir, base_image, built_images, vi>>
    /\ UNCHANGED <<stdin, pos, opts, ref, config, tags, build_args, build_contexts,
                   ti, pi, pending, results, printed>>

\* checkout(repo, ref.new_rev, config.work_dir), then base_image = None and,
\* without a base to build, built_images = {}.
Checkout ==
    /\ pc = "checkout"
    /\ \E ok \in BOOLEAN :
        /\ calls' = Append(calls, Call("archive", 0, ref.new_rev, ok))
        /\ IF ok
           THEN /\ work_dir' = Extract(work_dir, RevIndex(ref.new_rev))
                /\ base_image' = None
                /\ built_images' = IF has_base(config) THEN built_images ELSE <<>>
                /\ vi' = 1
                /\ pc' = IF has_base(config) THEN "base" ELSE AfterVariants(1)
                /\ UNCHANGED <<raised, exit_code>>
           ELSE /\ raised' = "CalledProcessError"
                /\ exit_code' = 1
                /\ pc' = "exited"
                /\ UNCHANGED <<work_dir, base_image, built_images, vi>>
    /\ UNCHANGED <<stdin, pos, opts, ref, config, tags, build_args, build_contexts,
                   ti, pi, pending, results, printed>>

\* Mutant: the failure result is appended but sys.exit(1) is not called.
FailResult_NoExit(label, err) ==
    /\ results' = Append(results, [variant |-> label, tags |-> <<>>,
                                   success |-> FALSE, error |-> err])
    /\ raised' = raised
    /\ pc' = "finally"

\* Append a failure result and sys.exit(1): SystemExit unwinds through the
\* finally clause of main().
FailResult(label, err) ==
    /\ results' = Append(results, [variant |-> label, tags |-> <<>>,
                                   success |-> FALSE, error |-> err])
    /\ raised' = "SystemExit"
    /\ pc' = "finally"

\* Mutant: the local tag is kept as the base image even when its build failed.
BuildBase_TagOnFailure ==
    /\ pc = "base"
    /\ config.platforms # <<>>
    /\ \E ok \in BOOLEAN :
        /\ calls' = Append(calls,
                [Call("build", 0, local_tag(short_sha(ref)), ok)
                    EXCEPT !.platform = config.platforms[1],
                           !.tags = <<local_tag(short_sha(ref))>>])
        /\ base_image' = local_tag(short_sha(ref))
        /\ IF ok
           THEN /\ built_images' = <<>>
                /\ pc' = AfterVariants(1)
                /\ UNCHANGED <<results, raised>>
           ELSE /\ FailResult(BaseLabel, "CalledProcessError")
                /\ UNCHANGED <<built_images>>
    /\ UNCHANGED <<stdin, pos, opts, ref, config, work_dir, vi, tags,
                   build_args, build_contexts, ti, pi, pending, exit_code, printed>>

\* Mutant: a failed base build is recorded but the variants are built anyway.
BuildBase_IgnoreFailure ==
    /\ pc = "base"
    /\ \E ok \in BOOLEAN :
        /\ calls' = Append(calls,
                [Call("build", 0, local_tag(short_sha(ref)), ok)
                    EXCEPT !.platform = config.platforms[1],
                           !.tags = <<local_tag(short_sha(ref))>>])
        /\ base_image' = IF ok THEN local_tag(short_sha(ref)) ELSE base_image
        /\ results' = IF ok THEN results
                      ELSE Append(results, [variant |-> BaseLabel, tags |-> <<>>,
                                            success |-> FALSE, error |-> "CalledProcessError"])
        /\ built_images' = <<>>
        /\ pc' = AfterVariants(1)
        /\ raised' = raised
    /\ UNCHANGED <<stdin, pos, opts, ref, config, work_dir, vi, tags,
                   build_args, build_contexts, ti, pi, pending, exit_code, printed>>

\* if config.has_base: build_base(...)
BuildBase ==
    /\ pc = "base"
    /\ config.platforms # <<>>
    /\ \E ok \in BOOLEAN :
        /\ calls' = Append(calls,
                [Call("build", 0, local_tag(short_sha(ref)), ok)
                    EXCEPT !.platform = config.platforms[1],
                           !.tags = <<local_tag(short_sha(ref))>>])
        /\ IF ok
           THEN /\ base_image' = local_tag(short_sha(ref))
                /\ built_images' = <<>>
                /\ pc' = AfterVariants(1)
                /\ UNCHANGED <<results, raised>>
           ELSE /\ FailResult(BaseLabel, "CalledProcessError")
                /\ UNCHANGED <<base_image, built_images>>
    /\ UNCHANGED <<stdin, pos, opts, ref, config, work_dir, vi, tags,
                   build_args, build_contexts, ti, pi, pending, exit_code, printed>>

\* config.platforms[0] with an empty platform list, while build_base or
\* build_single_platform puts its command together: IndexError, which no
\* except clause of main() catches, so only the finally block runs.
PlatformIndexError ==
    /\ pc \in {"base", "build"}
    /\ config.platforms = <<>>
    /\ raised' = "IndexError"
    /\ pc' = "finally"
    /\ UNCHANGED <<stdin, pos, opts, ref, config, work_dir, base_image, built_images,
                   vi, tags, build_args, build_contexts, ti, pi, pending, results,
                   calls, exit_code, printed>>

\* Mutant: a variant whose contexts cannot be resolved is passed over.
StartVariant_SkipUnresolved ==
    /\ pc = "variant"
    /\ LET contexts == resolve_contexts(CurVariant, base_image, built_images)
       IN  IF contexts = RuntimeError
           THEN /\ vi' = vi + 1
                /\ pc' = AfterVariants(vi + 1)
                /\ UNCHANGED <<tags, build_args, build_contexts, work_dir, ti, pi,
                               pending, raised>>
           ELSE /\ build_contexts' = contexts
                /\ tags' = image_tags(ref, image_base(config), CurVariant.suffix)
                /\ build_args' = read_build_args(work_dir, short_sha(ref))
                /\ work_dir' = Stamp(work_dir, short_sha(ref))
                /\ ti' = 1
                /\ pi' = 1
                /\ pending' = FALSE
                /\ pc' = IF is_multi_platform(config) THEN "manifest_create" ELSE "build"
                /\ UNCHANGED <<raised, vi>>
    /\ UNCHANGED <<stdin, pos, opts, ref, config, base_image, built_images,
                   results, calls, exit_code, printed>>

\* Top of the variant loop: resolve_contexts, then build_variant up to its
\* first podman command (image_tags, read_build_args).
StartVariant ==
    /\ pc = "variant"
    /\ LET contexts == resolve_contexts(CurVariant, base_image, built_images)
       IN  IF contexts = RuntimeError
           THEN /\ raised' = "RuntimeError"
                /\ pc' = "finally"
                /\ UNCHANGED <<tags, build_args, build_contexts, work_dir, ti, pi, pending>>
           ELSE /\ build_contexts' = contexts
                /\ tags' = image_tags(ref, image_base(config), CurVariant.suffix)
                /\ build_args' = read_build_args(work_dir, short_sha(ref))
                /\ work_dir' = Stamp(work_dir, short_sha(ref))
                /\ ti' = 1
                /\ pi' = 1
                /\ pending' = FALSE
                /\ pc' = IF is_multi_platform(config) THEN "manifest_create" ELSE "build"
                /\ raised' = raised
    /\ UNCHANGED <<stdin, pos, opts, ref, config, base_image, built_images, vi,
                   results, calls, exit_code, printed>>

\* Mutant: the last tag is recorded under the suffix instead of the first.
VariantSucceeded_LastTag ==
    /\ results' = Append(results, [variant |-> Label(CurVariant), tags |-> tags,
                                   success |-> TRUE, error |-> ""])
    /\ built_images' = (CurVariant.suffix :> tags[Len(tags)]) @@ built_images
    /\ vi' = vi + 1
    /\ pc' = AfterVariants(vi + 1)
    /\ raised' = raised

\* build_variant returned: append the success result, record the first tag
\* under the suffix, go on with the next variant.
VariantSucceeded ==
    /\ results' = Append(results, [variant |-> Label(CurVariant), tags |-> tags,
                                   success |-> TRUE, error |-> ""])
    /\ built_images' = (CurVariant.suffix :> tags[1]) @@ built_images
    /\ vi' = vi + 1
    /\ pc' = AfterVariants(vi + 1)
    /\ raised' = raised

\* Mutant: the failure is recorded and the loop goes on with the next variant.
VariantFailed_Continue ==
    /\ results' = Append(results, [variant |-> Label(CurVariant), tags |-> <<>>,
                                   success |-> FALSE, error |-> "CalledProcessError"])
    /\ built_images' = built_images
    /\ vi' = vi + 1
    /\ pc' = AfterVariants(vi + 1)
    /\ raised' = raised

\* except subprocess.CalledProcessError in the variant loop.
VariantFailed ==
    /\ FailResult(Label(CurVariant), "CalledProcessError")
    /\ built_images' = built_images
    /\ vi' = vi

\* Mutant: a failed build is tried a second time before the variant fails.
SingleBuild_RetryOnce ==
    /\ pc = "build"
    /\ config.platforms # <<>>
    /\ \E ok \in BOOLEAN :
        /\ calls' = Append(calls, BuildCall(config.platforms[1], tags, ok))
        /\ IF ok
           THEN /\ pc' = "push"
                /\ ti' = 1
                /\ UNCHANGED <<results, built_images, vi, raised>>
           ELSE IF calls[Len(calls)].cmd # "build" \/ calls[Len(calls)].ok
           THEN UNCHANGED <<pc, ti, results, built_images, vi, raised>>
           ELSE /\ VariantFailed
                /\ ti' = ti
    /\ UNCHANGED <<stdin, pos, opts, ref, config, work_dir, base_image, tags,
                   build_args, build_contexts, pi, pending, exit_code, printed>>

\* build_single_platform: one podman build carrying every tag.
SingleBuild ==
    /\ pc = "build"
    /\ config.platforms # <<>>
    /\ \E ok \in BOOLEAN :
        /\ calls' = Append(calls, BuildCall(config.platforms[1], tags, ok))
        /\ IF ok
           THEN /\ pc' = "push"
                /\ ti' = 1
                /\ UNCHANGED <<results, built_images, vi, raised>>
           ELSE /\ VariantFailed
                /\ ti' = ti
    /\ UNCHANGED <<stdin, pos, opts, ref, config, work_dir, base_image, tags,
                   build_args, build_contexts, pi, pending, exit_code, printed>>

\* Mutant: a failed push is put off until the remaining tags have been pushed.
SinglePush_KeepGoing ==
    /\ pc = "push"
    /\ \E ok \in BOOLEAN :
        /\ calls' = Append(calls, Call("push", vi, tags[ti], ok))
        /\ IF ti < Len(tags)
           THEN ti' = ti + 1 /\ UNCHANGED <<pc, results, built_images, vi, raised>>
           ELSE IF ok
           THEN VariantSucceeded /\ ti' = ti
           ELSE VariantFailed /\ ti' = ti
    /\ UNCHANGED <<stdin, pos, opts, ref, config, work_dir, base_image, tags,
                   build_args, build_contexts, pi, pending, exit_code, printed>>

\* build_single_platform: for tag in tags: podman push tag.
SinglePush ==
    /\ pc = "push"
    /\ \E ok \in BOOLEAN :
        /\ calls' = Append(calls, Call("push", vi, tags[ti], ok))
        /\ IF ~ok
           THEN VariantFailed /\ ti' = ti
           ELSE IF ti < Len(tags)
           THEN ti' = ti + 1 /\ UNCHANGED <<pc, results, built_images, vi, raised>>
           ELSE VariantSucceeded /\ ti' = ti
    /\ UNCHANGED <<stdin, pos, opts, ref, config, work_dir, base_image, tags,
                   build_args, build_contexts, pi, pending, exit_code, printed>>

\* build_multi_platform: podman manifest create, before the try block.
ManifestCreate ==
    /\ pc = "manifest_create"
    /\ \E ok \in BOOLEAN :
        /\ calls' = Append(calls, Call("manifest create", vi, tags[1], ok))
        /\ IF ok
           THEN /\ pc' = "platform_build"
                /\ pi' = 1
                /\ UNCHANGED <<results, built_images, vi, raised>>
           ELSE /\ VariantFailed
                /\ pi' = pi
    /\ UNCHANGED <<stdin, pos, opts, ref, config, work_dir, base_image, tags,
                   build_args, build_contexts, ti, pending, exit_code, printed>>

\* Mutant: no tag is applied to the manifest list before it is pushed.
PushStep_NoTag(i) == "manifest_push"

\* In the tag loop of build_multi_platform: tags other than the manifest's
\* own name are applied with podman tag before they are pushed.
PushStep(i) == IF tags[i] # tags[1] THEN "manifest_tag" ELSE "manifest_push"

\* Mutant: a failed platform build leaves the manifest list behind.
PlatformBuild_NoCleanup ==
    /\ pc = "platform_build"
    /\ \E ok \in BOOLEAN :
        /\ calls' = Append(calls, BuildCall(config.platforms[pi], <<>>, ok))
        /\ IF ~ok
           THEN VariantFailed /\ UNCHANGED <<pi, ti, pending>>
           ELSE /\ UNCHANGED <<built_images, vi, results, raised>>
                /\ IF pi < Len(config.platforms)
                   THEN pi' = pi + 1 /\ UNCHANGED <<pc, ti, pending>>
                   ELSE ti' = 1 /\ pc' = PushStep(1) /\ UNCHANGED <<pi, pending>>
    /\ UNCHANGED <<stdin, pos, opts, ref, config, work_dir, base_image,
                   tags, build_args, build_contexts, exit_code, printed>>

\* build_multi_platform: for platform in config.platforms: podman build.
PlatformBuild ==
    /\ pc = "platform_build"
    /\ \E ok \in BOOLEAN :
        /\ calls' = Append(calls, BuildCall(config.platforms[pi], <<>>, ok))
        /\ IF ~ok
           THEN pending' = TRUE /\ pc' = "manifest_rm" /\ UNCHANGED <<pi, ti>>
           ELSE IF pi < Len(config.platforms)
           THEN pi' = pi + 1 /\ UNCHANGED <<pc, ti, pending>>
           ELSE ti' = 1 /\ pc' = PushStep(1) /\ UNCHANGED <<pi, pending>>
    /\ UNCHANGED <<stdin, pos, opts, ref, config, work_dir, base_image, built_images,
                   vi, tags, build_args, build_contexts, results, raised,
                   exit_code, printed>>

\* build_multi_platform: podman tag manifest tag.
ManifestTag ==
    /\ pc = "manifest_tag"
    /\ \E ok \in BOOLEAN :
        /\ calls' = Append(calls, Call("tag", vi, tags[ti], ok))
        /\ IF ok
           THEN pc' = "manifest_push" /\ pending' = pending
           ELSE pc' = "manifest_rm" /\ pending' = TRUE
    /\ UNCHANGED <<stdin, pos, opts, ref, config, work_dir, base_image, built_images,
                   vi, tags, build_args, build_contexts, ti, pi, results, raised,
                   exit_code, printed>>

\* build_multi_platform: podman manifest push --all tag docker://tag.
ManifestPush ==
    /\ pc = "manifest_push"
    /\ \E ok \in BOOLEAN :
        /\ calls' = Append(calls, Call("manifest push", vi, tags[ti], ok))
        /\ IF ~ok
           THEN pending' = TRUE /\ pc' = "manifest_rm" /\ ti' = ti
           ELSE IF ti < Len(tags)
           THEN ti' = ti + 1 /\ pc' = PushStep(ti + 1) /\ pending' = pending
           ELSE pc' = "manifest_rm" /\ UNCHANGED <<ti, pending>>
    /\ UNCHANGED <<stdin, pos, opts, ref, config, work_dir, base_image, built_images,
                   vi, tags, build_args, build_contexts, pi, results, raised,
                   exit_code, printed>>

\* build_multi_platform: finally: podman manifest rm.  A failure here raises
\* CalledProcessError out of build_variant like any other podman failure.
ManifestRm ==
    /\ pc = "manifest_rm"
    /\ \E ok \in BOOLEAN :
        /\ calls' = Append(calls, Call("manifest rm", vi, tags[1], ok))
        /\ IF ok /\ ~pending THEN VariantSucceeded ELSE VariantFailed
    /\ UNCHANGED <<stdin, pos, opts, ref, config, work_dir, base_image, tags,
                   build_args, build_contexts, ti, pi, pending, exit_code, printed>>

\* Mutant: the local base image is never removed.
Finally_KeepBase ==
    /\ pc = "finally"
    /\ calls' = calls
    /\ IF raised # "none"
       THEN pc' = "exited" /\ exit_code' = 1
       ELSE pc' = "read" /\ exit_code' = exit_code
    /\ UNCHANGED <<stdin, pos, opts, ref, config, work_dir, base_image, built_images,
                   vi, tags, build_args, build_contexts, ti, pi, pending, results,
                   raised, printed>>

\* Mutant: after a failure the first tag of the variant is removed as well.
Finally_Rollback ==
    /\ pc = "finally"
    /\ IF raised = "SystemExit" /\ tags # <<>>
       THEN \E ok \in BOOLEAN : calls' = Append(calls, Call("rmi", vi, tags[1], ok))
       ELSE IF Truthy(base_image)
       THEN \E ok \in BOOLEAN : calls' = Append(calls, Call("rmi", 0, base_image, ok))
       ELSE calls' = calls
    /\ IF raised # "none"
       THEN pc' = "exited" /\ exit_code' = 1
       ELSE pc' = "read" /\ exit_code' = exit_code
    /\ UNCHANGED <<stdin, pos, opts, ref, config, work_dir, base_image, built_images,
                   vi, tags, build_args, build_contexts, ti, pi, pending, results,
                   raised, printed>>

\* Mutant: the base image is removed only when no exception is in flight.
Finally_SkipOnError ==
    /\ pc = "finally"
    /\ IF Truthy(base_image) /\ raised = "none"
       THEN \E ok \in BOOLEAN : calls' = Append(calls, Call("rmi", 0, base_image, ok))
       ELSE calls' = calls
    /\ IF raised # "none"
       THEN pc' = "exited" /\ exit_code' = 1
       ELSE pc' = "read" /\ exit_code' = exit_code
    /\ UNCHANGED <<stdin, pos, opts, ref, config, work_dir, base_image, built_images,
                   vi, tags, build_args, build_contexts, ti, pi, pending, results,
                   raised, printed>>

\* finally: podman rmi base_image, its failure only logged; then either the
\* next stdin line or, with an exception in flight, the end of the process.
Finally ==
    /\ pc = "finally"
    /\ IF Truthy(base_image)
       THEN \E ok \in BOOLEAN : calls' = Append(calls, Call("rmi", 0, base_image, ok))
       ELSE calls' = calls
    /\ IF raised # "none"
       THEN pc' = "exited" /\ exit_code' = 1
       ELSE pc' = "read" /\ exit_code' = exit_code
    /\ UNCHANGED <<stdin, pos, opts, ref, config, work_dir, base_image, built_images,
                   vi, tags, build_args, build_contexts, ti, pi, pending, results,
                   raised, printed>>

\* End of stdin: the status table, then main() returns.
Report ==
    /\ pc = "read"
    /\ pos = Len(stdin)
    /\ printed' = (results # <<>>)
    /\ exit_code' = 0
    /\ pc' = "exited"
    /\ UNCHANGED <<stdin, pos, opts, ref, config, work_dir, base_image, built_images,
                   vi, tags, build_args, build_contexts, ti, pi, pending, results,
                   calls, raised>>

Next ==
    \/ ReadLine
    \/ Load
    \/ Checkout
    \/ BuildBase
    \/ PlatformIndexError
    \/ StartVariant
    \/ SingleBuild
    \/ SinglePush
    \/ ManifestCreate
    \/ PlatformBuild
    \/ ManifestTag
    \/ ManifestPush
    \/ ManifestRm
    \/ Finally
    \/ Report

Spec == Init /\ [][Next]_vars

\* The hook is a sequential process whose external commands all return: it
\* keeps taking steps until it has exited.
FairSpec == Spec /\ WF_vars(Next)

\* ─── image_tags on its own ─────────────────────────────────────────────────

\* Refnames of every shape image_tags tells apart: version tags, RC tags, tags
\* that are neither, and branches, some with slashes or version-like names.
TagRefNames ==
    { RefsTags \o <<"v", "1", ".", "2", ".", "3">>,
      RefsTags \o <<"v", "1", ".", "2", ".", "3", "-", "r", "c", "1">>,
      RefsTags \o <<"v", "2", ".", "0">>,
      RefsTags \o <<"v", "2", ".", "0", "-", "r", "c", "1", "2">>,
      RefsTags \o <<"n", "i", "g", "h", "t", "l", "y">>,
      RefsTags \o <<"1", ".", "0", "-", "r", "c", "1">>,
      RefsHeads \o <<"m", "a", "i", "n">>,
      RefsHeads \o <<"f", "/", "x">>,
      RefsHeads \o <<"a", "/", "b", "/", "c">>,
      RefsHeads \o <<"v", "1", ".", "2", ".", "3">>,
      RefsHeads \o <<"x", "-", "r", "c", "1">>,
      RefsHeads \o <<"e", "d", "g", "e">> }

\* main() about to build a variant of a legacy two-variant config for a ref
\* drawn from TagRefNames.
TagInit ==
    /\ pc = "variant"
    /\ stdin = <<>>
    /\ pos = 0
    /\ opts \in OptionStates
    /\ ref \in {[old_rev |-> ZeroRev, new_rev |-> Rev(k), refname |-> n] :
                    k \in {1, NumRevs}, n \in TagRefNames}
    /\ config = LoadConfig(opts, Descriptor(1))
    /\ work_dir = [package_json |-> None, commit_hash |-> None]
    /\ base_image = None
    /\ built_images = <<>>
    /\ vi \in 1..Len(Descriptor(1).variants)
    /\ tags = <<>>
    /\ build_args = <<>>
    /\ build_contexts = NoDict
    /\ ti = 0
    /\ pi = 0
    /\ pending = FALSE
    /\ results = <<>>
    /\ calls = <<>>
    /\ raised = "none"
    /\ exit_code = -1
    /\ printed = FALSE

\* build_variant computes the tags: ref.image_tags(config.image_base, suffix).
TagNext == StartVariant

TagSpec == TagInit /\ [][TagNext]_vars

\* ─── BuildConfig.load on its own ───────────────────────────────────────────

\* Each gitolite option unset (None), set to the empty string, or set to a value.
LoadOptionStates ==
    { ("oci.registry" :> r) @@ ("oci.image-name" :> n) :
        r \in {None, <<>>, <<"o">>}, n \in {None, <<>>, <<"i">>} }

\* main() about to load the config for the one update line it has read.
LoadInit ==
    /\ pc = "load"
    /\ \E k \in 1..NumRevs :
        /\ stdin = <<k>>
        /\ ref = [old_rev |-> ZeroRev, new_rev |-> Rev(k), refname |-> RefName(k)]
    /\ pos = 1
    /\ opts \in LoadOptionStates
    /\ config = NoDict
    /\ work_dir = [package_json |-> None, commit_hash |-> None]
    /\ base_image = None
    /\ built_images = <<>>
    /\ vi = 0
    /\ tags = <<>>
    /\ build_args = <<>>
    /\ build_contexts = NoDict
    /\ ti = 0
    /\ pi = 0
    /\ pending = FALSE
    /\ results = <<>>
    /\ calls = <<>>
    /\ raised = "none"
    /\ exit_code = -1
    /\ printed = FALSE

\* config = BuildConfig.load(repo, ref.new_rev)
LoadNext == Load

LoadSpec == LoadInit /\ [][LoadNext]_vars

TypeOK ==
    /\ pc \in {"read", "load", "checkout", "base", "variant", "build", "push",
               "manifest_create", "platform_build", "manifest_tag",
               "manifest_push", "manifest_rm", "finally", "exited"}
    /\ Len(stdin) <= MaxLines
    /\ pos \in 0..Len(stdin)
    /\ exit_code \in {-1, 0, 1}
    /\ (pc = "exited") = (exit_code # -1)

\* ─── Reading the run ───────────────────────────────────────────────────────

\* The tokens of each stdin line.
Parsed == [n \in 1..NumLines |-> Split(StdinLine(n))]

WellFormed(k) == Len(Parsed[stdin[k]]) = 3

LineRef(k) == [old_rev |-> Parsed[stdin[k]][1], new_rev |-> Parsed[stdin[k]][2],
               refname |-> Parsed[stdin[k]][3]]

\* A new-SHA of forty zeros.
Deletion(k) ==
    /\ WellFormed(k)
    /\ Len(LineRef(k).new_rev) = 40
    /\ \A i \in 1..40 : LineRef(k).new_rev[i] = "0"

\* The descriptor at the revision each stdin line names.
RawTable ==
    [n \in 1..NumLines |->
        IF Len(Parsed[n]) = 3 THEN Descriptor(RevIndex(Parsed[n][2])) ELSE NoDict]

LineRaw(k) == RawTable[stdin[k]]

\* Line k is an update whose revision carries a build descriptor.
Configured(k) == WellFormed(k) /\ ~Deletion(k) /\ LineRaw(k) # NoDict

\* The config each stdin line is built with, per state of the options.
ConfigTable ==
    [o \in OptionStates |->
        [n \in 1..NumLines |->
            IF RawTable[n] = NoDict \/ ("registry" \notin DOMAIN RawTable[n] /\ o["oci.registry"] = None)
            THEN NoDict
            ELSE LoadConfig(o, RawTable[n])]]

LineConfig(k) == ConfigTable[opts][stdin[k]]

\* The tags of each variant of each stdin line.
TagTable ==
    [o \in OptionStates |->
        [n \in 1..NumLines |->
            IF ConfigTable[o][n] = NoDict THEN <<>>
            ELSE [v \in 1..Len(ConfigTable[o][n].variants) |->
                    image_tags([old_rev |-> Parsed[n][1], new_rev |-> Parsed[n][2],
                                refname |-> Parsed[n][3]],
                               image_base(ConfigTable[o][n]),
                               ConfigTable[o][n].variants[v].suffix)]]]

LineTags(k, v) == TagTable[opts][stdin[k]][v]

\* The hook is through with line k.
LineDone(k) == k < pos \/ (k = pos /\ pc \in {"read", "exited"})

CallIdx == DOMAIN calls

BuildOrPush == {"build", "push", "manifest push"}

Publish == {"push", "manifest push"}

EngineCmds == {"build", "push", "manifest create", "tag", "manifest push", "manifest rm", "rmi"}

\* A podman build or push of a variant (not the base) of line k.
VariantWork(i, k) ==
    calls[i].line = k /\ calls[i].variant >= 1 /\ calls[i].cmd \in BuildOrPush

BaseBuild(i, k) == calls[i].line = k /\ calls[i].variant = 0 /\ calls[i].cmd = "build"

BaseBuilt(k) == \E i \in CallIdx : BaseBuild(i, k) /\ calls[i].ok

Removals(k) == {i \in CallIdx : calls[i].line = k /\ calls[i].cmd = "rmi"}

ShortShaOf(k) == SubSeq(LineRef(k).new_rev, 1, 7)

\* {image_base}{suffix}:{short_sha} for variant v of line k.
FirstTag(k, v) ==
    LineConfig(k).registry \o <<"/">> \o LineConfig(k).image_name
        \o LineConfig(k).variants[v].suffix \o <<":">> \o ShortShaOf(k)

\* Before call j, variant v of line k was built and each of its tags pushed.
Published(k, v, j) ==
    /\ \E i \in 1..(j - 1) : calls[i].line = k /\ calls[i].variant = v
                             /\ calls[i].cmd = "build" /\ calls[i].ok
    /\ \A t \in 1..3 : \E i \in 1..(j - 1) :
            /\ calls[i].line = k /\ calls[i].variant = v
            /\ calls[i].cmd \in Publish /\ calls[i].ok
            /\ calls[i].target = LineTags(k, v)[t]

\* ─── C1 ────────────────────────────────────────────────────────────────────

BuildFailed == \E i \in CallIdx : calls[i].cmd \in BuildOrPush /\ ~calls[i].ok

\* C1 as stated: the hook exits 0 if every attempted base or variant build
\* (and push) succeeded or none was attempted, and non-zero if any failed.
C1_Original ==
    pc = "exited" => /\ (~BuildFailed => exit_code = 0)
                     /\ (BuildFailed => exit_code # 0)

\* A command whose failure ends the invocation: everything but the probe for
\* the descriptor and the removal of the local base image.
FatalCallFailed == \E i \in CallIdx : ~calls[i].ok /\ calls[i].cmd \notin {"show", "rmi"}

\* C1 (amended): the hook exits non-zero if any base or variant build or push
\* failed, and also whenever anything else raises (another podman command of a
\* variant build, the checkout, a descriptor without its required registry or
\* with an empty platform list, the context ordering); it exits 0 only when main() reaches the end of stdin,
\* no command but the descriptor probe or the base-image removal having failed.
C1_ExitStatus ==
    pc = "exited" =>
        /\ exit_code \in {0, 1}
        /\ (exit_code = 0) = (~FatalCallFailed /\ raised \notin {"RuntimeError", "KeyError", "IndexError"})
        /\ (BuildFailed => exit_code = 1)

C1_Witness ==
    /\ pc = "exited"
    /\ exit_code = 1
    /\ \E i \in CallIdx : calls[i].line = 2 /\ calls[i].cmd = "push" /\ ~calls[i].ok
    /\ \E i \in CallIdx : calls[i].line = 1 /\ calls[i].cmd = "push" /\ calls[i].ok

\* ─── C2 ────────────────────────────────────────────────────────────────────

FirstVariantFailed(k) ==
    \E i \in CallIdx : calls[i].line = k /\ calls[i].variant = 1
                       /\ calls[i].cmd \in EngineCmds /\ ~calls[i].ok

\* C2: a base image that was built is removed exactly once, after the last
\* variant attempt of its ref, on every exit path; with a base and a failing
\* first variant the removal is attempted once and the exit status is non-zero.
C2_BaseRemovedOnce ==
    \A k \in 1..pos :
        /\ Cardinality(Removals(k)) <= 1
        /\ \A i \in Removals(k) :
            /\ BaseBuilt(k)
            /\ calls[i].target = <<"o", "t", "s", "-", "b", "a", "s", "e", ":">> \o ShortShaOf(k)
            /\ \A j \in CallIdx : calls[j].line = k => j <= i
        /\ (LineDone(k) /\ BaseBuilt(k)) => Cardinality(Removals(k)) = 1
        /\ (pc = "exited" /\ BaseBuilt(k) /\ FirstVariantFailed(k)) =>
                Cardinality(Removals(k)) = 1 /\ exit_code = 1

C2_Witness ==
    /\ pc = "exited"
    /\ \E k \in 1..pos : BaseBuilt(k) /\ FirstVariantFailed(k) /\ Cardinality(Removals(k)) = 1
    /\ raised = "SystemExit"

\* ─── C3 ────────────────────────────────────────────────────────────────────

\* Position of a command in the order main() prescribes for one ref.
Rank(c) ==
    CASE c.cmd = "show" -> -2
      [] c.cmd = "archive" -> -1
      [] c.cmd = "rmi" -> 1000
      [] OTHER -> c.variant

\* C3: per ref, checkout comes first, then the base build, then the variants
\* in declared order; no variant starts before the base build succeeded, and
\* variant i+1 starts only after variant i was built and pushed.
C3_CallOrder ==
    \A j \in CallIdx :
        LET k == calls[j].line
            v == calls[j].variant
        IN  /\ \A i \in 1..(j - 1) : calls[i].line <= k
            /\ \A i \in 1..(j - 1) : calls[i].line = k => Rank(calls[i]) <= Rank(calls[j])
            /\ calls[j].cmd \in EngineCmds =>
                    \E i \in 1..(j - 1) : /\ calls[i].line = k /\ calls[i].cmd = "archive"
                                          /\ calls[i].target = LineRef(k).new_rev
                                          /\ calls[i].ok
            /\ (v >= 1 /\ calls[j].cmd \in EngineCmds) =>
                    /\ v <= Len(LineConfig(k).variants)
                    /\ has_base(LineConfig(k)) =>
                            \E i \in 1..(j - 1) : BaseBuild(i, k) /\ calls[i].ok
                    /\ \A u \in 1..(v - 1) : Published(k, u, j)
                    /\ calls[j].cmd \in Publish =>
                            \E t \in 1..3 : calls[j].target = LineTags(k, v)[t]

C3_Witness ==
    \E j \in CallIdx :
        /\ calls[j].variant = 2 /\ calls[j].cmd = "build"
        /\ has_base(LineConfig(calls[j].line))
        /\ Published(calls[j].line, 1, j)

\* ─── C4 ────────────────────────────────────────────────────────────────────

FailureResults == {i \in DOMAIN results : ~results[i].success}

\* C4: when the build or a push of variant i fails, exactly one failure result
\* labelled with that variant (no tags, an error detail) is appended, no later
\* variant of the ref is built or pushed, and built_images gets no entry for it.
C4_VariantFailure ==
    \A i \in CallIdx :
        (calls[i].variant >= 1 /\ calls[i].cmd \in BuildOrPush /\ ~calls[i].ok) =>
            LET k == calls[i].line
                failed == LineConfig(k).variants[calls[i].variant]
            IN  /\ \A j \in CallIdx : j > i => calls[j].cmd \in {"manifest rm", "rmi"}
                /\ failed.suffix \notin DOMAIN built_images
                /\ pc # "manifest_rm" =>
                    /\ Cardinality(FailureResults) = 1
                    /\ results[Len(results)] =
                         [variant |-> IF failed.suffix = <<>> THEN <<"m", "a", "i", "n">>
                                      ELSE failed.suffix,
                          tags |-> <<>>, success |-> FALSE,
                          error |-> results[Len(results)].error]
                    /\ results[Len(results)].error # ""

C4_Witness ==
    /\ pc = "exited"
    /\ \E i \in CallIdx : calls[i].variant = 1 /\ calls[i].cmd = "push" /\ ~calls[i].ok
                          /\ Len(LineConfig(calls[i].line).variants) = 2
    /\ Len(results) = 1

\* ─── C5 ────────────────────────────────────────────────────────────────────

VariantFailedOn(k) == \E i \in CallIdx : VariantWork(i, k) /\ ~calls[i].ok

CheckedOut(k) == \E i \in CallIdx : calls[i].line = k /\ calls[i].cmd = "archive"

\* C5 as stated: after a variant build failure on one ref the hook goes on to
\* every later line; a later configured, non-delete ref is still checked out
\* and built.
C5_Original ==
    pc = "exited" =>
        \A j \in 1..Len(stdin) : \A k \in (j + 1)..Len(stdin) :
            (VariantFailedOn(j) /\ Configured(k)) => CheckedOut(k)

\* ─── C6 ────────────────────────────────────────────────────────────────────

\* C6 as stated: whenever a build result was recorded, the status table is
\* printed after all stdin lines were handled and before the process exits,
\* also when a base or variant build failed.
C6_Original ==
    (pc = "exited" /\ results # <<>>) => (printed /\ pos = Len(stdin))

\* ─── C7 ────────────────────────────────────────────────────────────────────

Loadable(k) == Configured(k) /\ ~("registry" \notin DOMAIN LineRaw(k) /\ opts["oci.registry"] = None)

DeclaredContexts(variant) == IF "contexts" \in DOMAIN variant THEN variant.contexts ELSE <<>>

\* Variant v of line k names a producer that is itself or not an earlier variant.
BadVariant(k, v) ==
    LET vs == LineConfig(k).variants
    IN  \E c \in 1..Len(DeclaredContexts(vs[v])) :
            DeclaredContexts(vs[v])[c][2] \notin {vs[u].suffix : u \in 1..(v - 1)}

BadVariants(k) == {v \in 1..Len(LineConfig(k).variants) : BadVariant(k, v)}

FirstBad(k) == CHOOSE v \in BadVariants(k) : \A u \in BadVariants(k) : v <= u

\* C7 as stated: a self or forward reference at any position aborts the ref
\* before any build starts: no base build, variant build or push for the ref.
C7_Original ==
    \A k \in 1..pos :
        (Loadable(k) /\ BadVariants(k) # {}) =>
            \A i \in CallIdx : calls[i].line = k => calls[i].cmd \notin BuildOrPush

\* C7 (amended): a self or forward reference aborts the ref with a
\* configuration error when the offending variant's turn comes: nothing is
\* built or pushed for it or a later variant, the base and the variants before
\* it are; with the offending variant first and no base, no engine command is
\* issued for the ref at all; the invocation exits non-zero.
C7_OrderingAbort ==
    \A k \in 1..pos :
        (Loadable(k) /\ BadVariants(k) # {}) =>
            /\ \A i \in CallIdx :
                    (calls[i].line = k /\ calls[i].cmd \in EngineCmds \ {"rmi"}) =>
                        calls[i].variant < FirstBad(k)
            /\ (FirstBad(k) = 1 /\ ~has_base(LineConfig(k))) =>
                    \A i \in CallIdx : calls[i].line = k => calls[i].cmd \notin EngineCmds
            /\ LineDone(k) =>
                    /\ pc = "exited" /\ exit_code = 1
                    /\ (\A i \in CallIdx : calls[i].line = k /\ calls[i].cmd # "rmi" => calls[i].ok)
                            => raised = "RuntimeError"

C7_Witness ==
    /\ pc = "exited"
    /\ raised = "RuntimeError"
    /\ Loadable(pos)
    /\ BadVariants(pos) = {2}
    /\ Published(pos, 1, Len(calls) + 1)
    /\ BaseBuilt(pos)

\* ─── C8 ────────────────────────────────────────────────────────────────────

\* C8: when variant B declares context x produced by an earlier variant A, A
\* is built and all its tags are pushed before B's build is invoked, and B's
\* build receives x = {image_base}{A.suffix}:{short_sha}.
C8_ContextIsFirstTag ==
    \A j \in CallIdx :
        (calls[j].cmd = "build" /\ calls[j].variant >= 1) =>
            LET k == calls[j].line
                vs == LineConfig(k).variants
                B == vs[calls[j].variant]
            IN  \A c \in 1..Len(DeclaredContexts(B)) : \A a \in 1..(calls[j].variant - 1) :
                    vs[a].suffix = DeclaredContexts(B)[c][2] =>
                        /\ Published(k, a, j)
                        /\ DeclaredContexts(B)[c][1] \in DOMAIN calls[j].contexts
                        /\ calls[j].contexts[DeclaredContexts(B)[c][1]] = FirstTag(k, a)

C8_Witness ==
    \E j \in CallIdx :
        /\ calls[j].cmd = "build" /\ calls[j].variant = 2 /\ calls[j].ok
        /\ calls[j].platform = "linux/arm64"
        /\ calls[j].contexts["main"] = <<"r", "/", "a", ":", "a", "b", "c", "0", "0", "0", "3">>

\* ─── C9 ────────────────────────────────────────────────────────────────────

Unconfigured(k) == WellFormed(k) /\ ~Deletion(k) /\ LineRaw(k) = NoDict

SkippedLine(k) == ~WellFormed(k) \/ Deletion(k) \/ Unconfigured(k)

\* No checkout and no engine command is issued for a skipped line, the
\* descriptor is not even looked up for a deletion or a malformed line, and an
\* invocation made of skipped lines exits 0 with no result.
SkippedLinesUntouched ==
    /\ \A i \in CallIdx :
            /\ calls[i].cmd = "show" => (WellFormed(calls[i].line) /\ ~Deletion(calls[i].line))
            /\ calls[i].cmd # "show" => Configured(calls[i].line)
    /\ (\A k \in 1..pos : SkippedLine(k)) => (results = <<>> /\ exit_code \in {-1, 0})

\* The step with which the hook leaves a skipped line behind.
SkipStep ==
    \/ pc = "read" /\ pos' = pos + 1 /\ (~WellFormed(pos + 1) \/ Deletion(pos + 1))
    \/ pc = "load" /\ Unconfigured(pos)

NonProbe(cs) == {i \in DOMAIN cs : cs[i].cmd # "show"}

\* C9: a deletion, a revision without descriptor and a line that is not three
\* tokens long have no effect: no checkout, no engine command, no result, no
\* change of the exit status; the descriptor is not looked up for a deletion.
C9_SkippedLinesNoEffect ==
    /\ []SkippedLinesUntouched
    /\ [][SkipStep => /\ results' = results
                      /\ exit_code' = exit_code
                      /\ raised' = raised
                      /\ pc' = "read"
                      /\ NonProbe(calls') = NonProbe(calls)
                      /\ Len(calls') <= Len(calls) + 1]_vars

C9_Witness ==
    /\ pc = "exited"
    /\ exit_code = 0
    /\ Len(stdin) = 2
    /\ Deletion(1)
    /\ Unconfigured(2)
    /\ Len(calls) = 1

\* ─── C10 ───────────────────────────────────────────────────────────────────

Cleanup == {"rmi", "manifest rm"}

\* C10 as stated: a failing cleanup step (removal of the local base image or
\* of the local manifest list) never turns a successful variant into a failed
\* result, never stops later variants and never changes the exit status.
C10_Original ==
    ( /\ pc = "exited"
      /\ raised \notin {"RuntimeError", "KeyError", "IndexError"}
      /\ \A i \in CallIdx : ~calls[i].ok => calls[i].cmd \in Cleanup \cup {"show"} )
    => (exit_code = 0 /\ \A r \in DOMAIN results : results[r].success)

\* ─── C11 ───────────────────────────────────────────────────────────────────

\* "ots-base:" followed by the short SHA of line k.
BaseRef(k) == <<"o", "t", "s", "-", "b", "a", "s", "e", ":">> \o ShortShaOf(k)

\* C11: the base image is built locally only: no push (podman push or podman
\* manifest push) ever names the local base reference, and the reference the
\* base is built under, and kept as while that ref is being built, is
\* ots-base:{short_sha} of that ref.
C11_BaseLocalOnly ==
    /\ \A i \in CallIdx :
        /\ calls[i].cmd \in Publish =>
                \A k \in 1..pos : WellFormed(k) => calls[i].target # BaseRef(k)
        /\ (calls[i].cmd = "build" /\ calls[i].variant = 0) =>
                /\ calls[i].tags = << BaseRef(calls[i].line) >>
                /\ calls[i].target = BaseRef(calls[i].line)
    /\ (Truthy(base_image) /\ pc \notin {"read", "load", "checkout", "exited"}) =>
            base_image = BaseRef(pos)

\* A base was built and, after it, every tag of a variant of that ref pushed.
C11_Witness ==
    /\ pc = "exited"
    /\ \E k \in 1..pos : BaseBuilt(k) /\ Published(k, 1, Len(calls) + 1)

\* ─── C12 ───────────────────────────────────────────────────────────────────

\* A podman build of a variant (not of the base).
VariantBuild(i) == calls[i].cmd = "build" /\ calls[i].variant >= 1

\* The contexts variant v of line k declares.
Declared(k, v) == Get(LineConfig(k).variants[v], "contexts", <<>>)

\* The producer suffix variant v of line k declares under the name "base",
\* None when it declares no such context.
DeclaredBase(k, v) ==
    IF \E j \in 1..Len(Declared(k, v)) : Declared(k, v)[j][1] = "base"
    THEN Declared(k, v)[CHOOSE j \in 1..Len(Declared(k, v)) : Declared(k, v)[j][1] = "base"][2]
    ELSE None

\* {image_base}{suffix}:{short_sha} of line k for a suffix.
TagOfSuffix(k, suffix) ==
    LineConfig(k).registry \o <<"/">> \o LineConfig(k).image_name
        \o suffix \o <<":">> \o ShortShaOf(k)

\* Without a configured base and without declared contexts, a variant build
\* is passed no build context.
NoContextPassed(i) ==
    ( "base" \notin DOMAIN LineRaw(calls[i].line)
      /\ Declared(calls[i].line, calls[i].variant) = <<>> ) => calls[i].contexts = NoDict

DigitChars == {"0", "1", "2", "3", "4", "5", "6", "7", "8", "9"}

UnderTags(r) ==
    Len(r.refname) > Len(RefsTags) /\ SubSeq(r.refname, 1, Len(RefsTags)) = RefsTags

UnderHeads(r) ==
    Len(r.refname) > Len(RefsHeads) /\ SubSeq(r.refname, 1, Len(RefsHeads)) = RefsHeads

\* What follows refs/tags/ or refs/heads/ in the refname.
ShortName(r) ==
    SubSeq(r.refname, (IF UnderTags(r) THEN Len(RefsTags) ELSE Len(RefsHeads)) + 1,
           Len(r.refname))

\* vX.Y.Z: a "v" followed by digits and dots.
ReleaseName(t) ==
    Len(t) >= 2 /\ t[1] = "v" /\ \A i \in 2..Len(t) : t[i] \in DigitChars \cup {"."}

\* vX.Y.Z-rcN
RcName(t) ==
    \E p \in 2..(Len(t) - 4) :
        /\ ReleaseName(SubSeq(t, 1, p))
        /\ SubSeq(t, p + 1, p + 3) = <<"-", "r", "c">>
        /\ \A i \in (p + 4)..Len(t) : t[i] \in DigitChars

Dashed(t) == [i \in 1..Len(t) |-> IF t[i] = "/" THEN "-" ELSE t[i]]

\* The tags of the variant being built, as the claims word them.
FullBase == config.registry \o <<"/">> \o config.image_name \o config.variants[vi].suffix

Tagged(name) == FullBase \o <<":">> \o name

\* C13: image_tags returns exactly three tags in a fixed order, each prefixed
\* by {image_base}{suffix}: first the short SHA; then, for a release tag vX.Y.Z,
\* the version and latest; for an RC tag vX.Y.Z-rcN, the version and next; for
\* a branch push, the branch name with every "/" replaced by "-" and edge.
C13_ImageTags ==
    pc # "variant" =>
        /\ Len(tags) = 3
        /\ \A t \in 1..3 : /\ Len(tags[t]) > Len(FullBase) + 1
                            /\ SubSeq(tags[t], 1, Len(FullBase) + 1) = FullBase \o <<":">>
        /\ tags[1] = Tagged(SubSeq(ref.new_rev, 1, 7))
        /\ (UnderTags(ref) /\ ReleaseName(ShortName(ref))) =>
                /\ tags[2] = Tagged(ShortName(ref))
                /\ tags[3] = Tagged(<<"l", "a", "t", "e", "s", "t">>)
        /\ (UnderTags(ref) /\ RcName(ShortName(ref))) =>
                /\ tags[2] = Tagged(ShortName(ref))
                /\ tags[3] = Tagged(<<"n", "e", "x", "t">>)
        /\ UnderHeads(ref) =>
                /\ tags[2] = Tagged(Dashed(ShortName(ref)))
                /\ tags[3] = Tagged(<<"e", "d", "g", "e">>)

\* The tags of a push to the branch a/b/c have been computed.
C13_Witness ==
    /\ pc # "variant"
    /\ ref.refname = RefsHeads \o <<"a", "/", "b", "/", "c">>
    /\ tags[2] = Tagged(<<"a", "-", "b", "-", "c">>)

\* ─── C14 ───────────────────────────────────────────────────────────────────

\* The second and third tag names when the RC test is made before the
\* release test.
TagPairRcFirst(r) ==
    IF is_rc(r) THEN << tag(r), <<"n", "e", "x", "t">> >>
    ELSE IF is_release(r) THEN << tag(r), <<"l", "a", "t", "e", "s", "t">> >>
    ELSE << branch(r), <<"e", "d", "g", "e">> >>

\* C14: is_release and is_rc are never both true of a ref, so the pair of tags
\* chosen does not depend on the order of the two tests, and a ref never
\* receives both latest and next.
C14_ReleaseXorRc ==
    /\ ~(is_release(ref) /\ is_rc(ref))
    /\ pc # "variant" =>
        /\ tags[2] = Tagged(TagPairRcFirst(ref)[1])
        /\ tags[3] = Tagged(TagPairRcFirst(ref)[2])
        /\ ~( /\ \E t \in 1..Len(tags) : tags[t] = Tagged(<<"l", "a", "t", "e", "s", "t">>)
              /\ \E t \in 1..Len(tags) : tags[t] = Tagged(<<"n", "e", "x", "t">>) )

\* The tags of an RC tag that also starts with "v" have been computed.
C14_Witness ==
    /\ pc # "variant"
    /\ is_rc(ref)
    /\ ref.refname = RefsTags \o <<"v", "1", ".", "2", ".", "3", "-", "r", "c", "1">>
    /\ tags[3] = Tagged(<<"n", "e", "x", "t">>)

\* ─── C15 ───────────────────────────────────────────────────────────────────

\* Calls i and j were issued for the same variant of the same stdin line.
SameVariant(i, j) == calls[i].line = calls[j].line /\ calls[i].variant = calls[j].variant

\* Call i belongs to a variant of a line whose config is single-platform.
SingleCall(i) ==
    calls[i].variant >= 1 /\ Len(LineConfig(calls[i].line).platforms) <= 1

TagsOf(i) == LineTags(calls[i].line, calls[i].variant)

\* Call i is the push of the t-th tag of its variant: the t calls before it
\* are the variant's build and the pushes of the tags before, all successful.
PushOfTag(i, t) ==
    /\ calls[i].cmd = "push"
    /\ calls[i].target = TagsOf(i)[t]
    /\ i - t >= 1
    /\ calls[i - t].cmd = "build"
    /\ \A j \in (i - t)..(i - 1) :
            /\ SameVariant(j, i)
            /\ calls[j].ok
            /\ j > i - t => calls[j].cmd = "push"

\* C15: a single-platform variant build is exactly one engine build carrying
\* all the variant's tags, followed by exactly one push per tag in tag order:
\* no push without a successful build before it, no push after a failed push,
\* and after a successful step the next tag's push is what follows.
C15_SinglePlatform ==
    \A i \in CallIdx : SingleCall(i) =>
        /\ calls[i].cmd \in {"build", "push"}
        /\ calls[i].cmd = "build" =>
                /\ calls[i].tags = TagsOf(i)
                /\ i > 1 => ~SameVariant(i - 1, i)
        /\ calls[i].cmd = "push" => \E t \in 1..Len(TagsOf(i)) : PushOfTag(i, t)
        /\ IF calls[i].ok /\ ~PushOfTag(i, Len(TagsOf(i)))
           THEN IF i = Len(calls)
                THEN pc = "push"
                ELSE SameVariant(i + 1, i) /\ calls[i + 1].cmd = "push"
           ELSE i < Len(calls) => ~SameVariant(i + 1, i)

\* A single-platform variant was built and its last tag pushed.
C15_Witness ==
    \E i \in CallIdx :
        /\ SingleCall(i)
        /\ PushOfTag(i, Len(TagsOf(i)))
        /\ calls[i].ok

\* ─── C16 ───────────────────────────────────────────────────────────────────

\* Call i belongs to a variant of a line whose config is multi-platform.
MultiCall(i) ==
    calls[i].variant >= 1 /\ Len(LineConfig(calls[i].line).platforms) > 1

Step(cmd, target, platform) == [cmd |-> cmd, target |-> target, platform |-> platform]

\* The engine calls of a multi-platform variant with tags T and platforms P,
\* up to the removal of the manifest list: create the list under the first
\* tag, build each platform into it, then per tag apply it (unless it is the
\* list's own name) and push it.
ManifestSteps(T, P) ==
    << Step("manifest create", T[1], "") >>
    \o [p \in 1..Len(P) |-> Step("build", T[1], P[p])]
    \o << Step("manifest push", T[1], ""),
          Step("tag", T[2], ""), Step("manifest push", T[2], ""),
          Step("tag", T[3], ""), Step("manifest push", T[3], "") >>

\* The steps of each variant of each stdin line.
StepsTable ==
    [o \in OptionStates |->
        [n \in 1..NumLines |->
            IF ConfigTable[o][n] = NoDict THEN <<>>
            ELSE [v \in 1..Len(ConfigTable[o][n].variants) |->
                    ManifestSteps(TagTable[o][n][v], ConfigTable[o][n].platforms)]]]

StepsOf(i) == StepsTable[opts][stdin[calls[i].line]][calls[i].variant]

\* Call i is the q-th step of its variant: the variant's manifest create lies
\* q - 1 calls back and every call in between is the variant's and succeeded.
AtStep(i, q) ==
    /\ i - q + 1 >= 1
    /\ calls[i - q + 1].cmd = "manifest create"
    /\ \A j \in (i - q + 1)..(i - 1) : SameVariant(j, i) /\ calls[j].ok
    /\ calls[i].cmd = StepsOf(i)[q].cmd
    /\ calls[i].target = StepsOf(i)[q].target
    /\ calls[i].platform = StepsOf(i)[q].platform
    /\ calls[i].cmd = "build" => calls[i].tags = <<>>

\* C16: a multi-platform variant build first creates a manifest list named
\* after the first (short-SHA) tag, then builds each platform once, one after
\* the other in declared order, into that list; nothing is tagged or pushed
\* until every platform build has succeeded; each tag but the first is applied
\* to the list before it is pushed, and every tag is pushed once, in order.
C16_MultiPlatform ==
    \A i \in CallIdx : (MultiCall(i) /\ calls[i].cmd # "manifest rm") =>
        /\ \E q \in 1..Len(StepsOf(i)) : AtStep(i, q)
        /\ calls[i].cmd = "manifest create" =>
                /\ calls[i].target = FirstTag(calls[i].line, calls[i].variant)
                /\ i > 1 => ~SameVariant(i - 1, i)
        /\ (calls[i].ok /\ ~AtStep(i, Len(StepsOf(i)))) =>
                IF i = Len(calls)
                THEN pc \in {"platform_build", "manifest_tag", "manifest_push"}
                ELSE SameVariant(i + 1, i) /\ calls[i + 1].cmd # "manifest rm"

\* A multi-platform variant went through all its steps: its last tag was pushed.
C16_Witness ==
    \E i \in CallIdx :
        /\ MultiCall(i)
        /\ calls[i].cmd = "manifest push"
        /\ AtStep(i, Len(StepsOf(i)))
        /\ calls[i].ok

\* ─── C17 ───────────────────────────────────────────────────────────────────

\* The manifest list of call i's variant was created: the variant's
\* successful manifest create lies at most a whole run of steps back.
ManifestCreated(i) ==
    \E q \in 1..(Len(StepsOf(i)) + 1) :
        /\ i - q + 1 >= 1
        /\ calls[i - q + 1].cmd = "manifest create"
        /\ calls[i - q + 1].ok
        /\ \A j \in (i - q + 1)..i : SameVariant(j, i)

\* C17: in a multi-platform build, once the manifest list has been created, the
\* removal of the local manifest list is attempted exactly once, as the last
\* engine call of that variant, whether every step succeeded or one failed.
C17_ManifestRemoved ==
    \A i \in CallIdx : MultiCall(i) =>
        /\ calls[i].cmd = "manifest rm" =>
                /\ i > 1
                /\ ManifestCreated(i - 1)
                /\ SameVariant(i - 1, i)
                /\ calls[i - 1].cmd # "manifest rm"
                /\ calls[i].target = TagsOf(i)[1]
                /\ i < Len(calls) => ~SameVariant(i + 1, i)
        /\ (calls[i].cmd # "manifest rm" /\ ManifestCreated(i)) =>
                IF i = Len(calls)
                THEN pc \in {"platform_build", "manifest_tag", "manifest_push", "manifest_rm"}
                ELSE SameVariant(i + 1, i)
        /\ (calls[i].cmd # "manifest rm" /\ ManifestCreated(i)
              /\ (~calls[i].ok \/ AtStep(i, Len(StepsOf(i))))) =>
                IF i = Len(calls)
                THEN pc = "manifest_rm"
                ELSE calls[i + 1].cmd = "manifest rm"

\* The manifest list was removed after a variant whose every step succeeded
\* and after a variant one of whose steps failed.
C17_Witness ==
    /\ \E i \in CallIdx : /\ MultiCall(i) /\ calls[i].cmd = "manifest rm"
                           /\ calls[i - 1].ok /\ calls[i - 1].cmd = "manifest push"
    /\ \E i \in CallIdx : /\ MultiCall(i) /\ calls[i].cmd = "manifest rm"
                           /\ ~calls[i - 1].ok

\* ─── C18 ───────────────────────────────────────────────────────────────────

\* The descriptor at the revision being loaded.
RawOfRef == Descriptor(RevIndex(ref.new_rev))

\* load has returned or raised for a revision that carries a descriptor.
Loaded == pc # "load" /\ RawOfRef # NoDict

C19_AbsentDescriptor ==
    (pc # "load" /\ RawOfRef = NoDict) =>
        /\ config = NoDict
        /\ raised = "none"
        /\ pc = "read"
        /\ exit_code = -1

\* The probe for the descriptor failed while the registry option was set but
\* empty.
C19_Witness ==
    /\ pc = "read"
    /\ RawOfRef = NoDict
    /\ opts["oci.registry"] = <<>>
    /\ Len(calls) = 1
    /\ calls[1].cmd = "show"
    /\ ~calls[1].ok

\* ─── C20 ───────────────────────────────────────────────────────────────────

\* C20 as stated: every config load returns has a non-empty platforms list,
\* whatever the descriptor, one that gives platforms explicitly included; when
\* the descriptor omits platforms the list is the single-entry default and
\* is_multi_platform is false.
C20_Original ==
    pc = "checkout" =>
        /\ Len(config.platforms) >= 1
        /\ "platforms" \notin DOMAIN RawOfRef =>
                /\ config.platforms = <<"linux/amd64">>
                /\ ~is_multi_platform(config)

\* ─── C21 ───────────────────────────────────────────────────────────────────

\* Call j asks the engine for what call i asked before: the base build of the
\* same line, the build of the same variant and platform of the same line, or
\* the push of the same tag of the same variant of the same line.
Repeats(j, i) ==
    /\ calls[i].line = calls[j].line
    /\ calls[i].variant = calls[j].variant
    /\ \/ calls[i].cmd = "build" /\ calls[j].cmd = "build"
          /\ (calls[i].variant = 0 \/ calls[i].platform = calls[j].platform)
       \/ calls[i].cmd \in Publish /\ calls[j].cmd \in Publish
          /\ calls[i].target = calls[j].target

\* C21: no engine operation is ever retried: the base build is issued at most
\* once per ref, the build of each (ref, variant, platform) at most once and
\* each tag of each variant is pushed at most once, whatever the outcomes.
C21_NoRetry ==
    \A j \in CallIdx : calls[j].cmd \in BuildOrPush =>
        \A i \in 1..(j - 1) : ~Repeats(j, i)

\* A build failed and the hook exited without issuing it again.
C21_Witness ==
    /\ pc = "exited"
    /\ calls # <<>>
    /\ calls[Len(calls)].cmd = "build"
    /\ calls[Len(calls)].variant >= 1
    /\ ~calls[Len(calls)].ok

\* ─── C22 ───────────────────────────────────────────────────────────────────

\* C22: the tags published to the registry only grow: the commands the hook
\* issues besides builds and pushes remove local objects only (the local base
\* image, the local manifest list of the variant in progress), and once a call
\* of a variant has failed nothing is built, tagged or pushed any more, so no
\* tag pushed for an earlier variant, or earlier for the failing one, is
\* removed or written again.
C22_NoRollback ==
    \A j \in CallIdx :
        /\ calls[j].cmd \in {"show", "archive"} \cup EngineCmds
        /\ calls[j].cmd = "rmi" =>
                calls[j].variant = 0 /\ calls[j].target = BaseRef(calls[j].line)
        /\ calls[j].cmd = "manifest rm" =>
                /\ calls[j].target = TagsOf(j)[1]
                /\ j > 1 /\ SameVariant(j - 1, j)
        /\ (calls[j].variant >= 1 /\ ~calls[j].ok) =>
                \A i \in (j + 1)..Len(calls) :
                    /\ calls[i].cmd \in {"manifest rm", "rmi"}
                    /\ calls[i].cmd = "manifest rm" => SameVariant(i, j)

\* The first variant of a ref was published, then the second tag of the
\* second variant failed to push, and the hook has exited.
C22_Witness ==
    /\ pc = "exited"
    /\ Published(pos, 1, Len(calls) + 1)
    /\ \E j \in CallIdx :
            /\ calls[j].line = pos /\ calls[j].variant = 2
            /\ calls[j].cmd \in Publish /\ ~calls[j].ok
            /\ calls[j].target = LineTags(pos, 2)[2]
            /\ calls[j - 1].cmd \in Publish /\ calls[j - 1].ok

\* ─── C23 ───────────────────────────────────────────────────────────────────

\* C23: the config a ref is built with is the descriptor stored at that ref's
\* exact pushed revision (with the options applied), read once per ref by a
\* git show of that revision that comes before the ref's checkout and every
\* other call for it; it is the same whatever the work directory holds and
\* whatever was loaded for the lines before.
C23_ConfigOfRevision ==
    /\ pc \notin {"read", "load", "exited"} =>
            /\ ref = LineRef(pos)
            /\ config = LoadConfig(opts, Descriptor(RevIndex(LineRef(pos).new_rev)))
    /\ \A i \in CallIdx :
        /\ calls[i].cmd = "show" =>
                /\ calls[i].target = LineRef(calls[i].line).new_rev
                /\ calls[i].ok = (Descriptor(RevIndex(calls[i].target)) # NoDict)
                /\ i > 1 => calls[i - 1].line < calls[i].line
        /\ calls[i].cmd = "archive" =>
                /\ i > 1
                /\ calls[i - 1].cmd = "show"
                /\ calls[i - 1].line = calls[i].line
                /\ calls[i - 1].ok
                /\ calls[i].target = calls[i - 1].target

\* The second line is being built with its own descriptor, which differs from
\* the first line's, in a work directory the first line left its files in.
C23_Witness ==
    /\ pos = 2
    /\ pc = "variant"
    /\ LineConfig(1) # NoDict
    /\ LineConfig(2) # LineConfig(1)
    /\ config = LineConfig(2)
    /\ work_dir.commit_hash = ShortShaOf(1)

\* ─── C24 ───────────────────────────────────────────────────────────────────

\* The package metadata in the work directory declares a non-empty version.
DeclaresVersion == work_dir.package_json # None /\ Len(work_dir.package_json) > 0

\* C24: the build arguments of every variant build include COMMIT_HASH, equal
\* to the short SHA of the ref, and VERSION exactly when the package metadata
\* in the checkout declares a non-empty version, then with that version;
\* the short SHA is in the stamp file by then, and all variant builds of a ref
\* carry the same arguments.
C24_BuildArgs ==
    \A i \in CallIdx : VariantBuild(i) =>
        /\ "COMMIT_HASH" \in DOMAIN calls[i].build_args
        /\ calls[i].build_args["COMMIT_HASH"] = ShortShaOf(calls[i].line)
        /\ DOMAIN calls[i].build_args \subseteq {"COMMIT_HASH", "VERSION"}
        /\ calls[i].line = pos =>
                /\ ("VERSION" \in DOMAIN calls[i].build_args) = DeclaresVersion
                /\ DeclaresVersion => calls[i].build_args["VERSION"] = work_dir.package_json
                /\ work_dir.commit_hash = ShortShaOf(pos)
        /\ (i > 1 /\ calls[i - 1].line = calls[i].line /\ calls[i - 1].variant >= 1) =>
                \A j \in 1..(i - 1) :
                    (VariantBuild(j) /\ calls[j].line = calls[i].line) =>
                        calls[j].build_args = calls[i].build_args

\* Both variants of one ref were built with the version its package metadata
\* declares, and a variant of another ref, whose metadata declares an empty
\* version, without VERSION.
C24_Witness ==
    /\ \E i, j \in CallIdx :
            /\ VariantBuild(i) /\ VariantBuild(j)
            /\ calls[i].line = calls[j].line
            /\ calls[i].variant = 1 /\ calls[j].variant = 2
            /\ "VERSION" \in DOMAIN calls[j].build_args
            /\ calls[j].build_args["VERSION"] = <<"1", ".", "0">>
    /\ work_dir.package_json = <<>>
    /\ \E i \in CallIdx :
            /\ VariantBuild(i) /\ calls[i].line = pos
            /\ DOMAIN calls[i].build_args = {"COMMIT_HASH"}

\* ─── C25 ───────────────────────────────────────────────────────────────────

\* Before call j, some producer suffix that variant v of line k declares is
\* not the suffix of an earlier variant of line k that was built and pushed.
MissingProducer(k, v, j) ==
    \E c \in 1..Len(Declared(k, v)) :
        \A u \in 1..(v - 1) :
            LineConfig(k).variants[u].suffix = Declared(k, v)[c][2] => ~Published(k, u, j)

\* C25: context resolution for a variant fails with the ordering-violation
\* error exactly when one of its declared producer suffixes is not the suffix
\* of a variant built successfully earlier in the same ref.  On that failure
\* no engine call is issued for that variant or a later one, the variants
\* before it stay built and pushed, the base image, if built, is still
\* removed, and the process exits non-zero.
C25_OrderingViolation ==
    /\ raised = "RuntimeError" =>
            /\ MissingProducer(pos, vi, Len(calls) + 1)
            /\ \A i \in CallIdx : calls[i].line = pos => calls[i].variant < vi
            /\ \A u \in 1..(vi - 1) : Published(pos, u, Len(calls) + 1)
            /\ pc = "exited" =>
                    /\ exit_code = 1
                    /\ BaseBuilt(pos) =>
                            /\ calls[Len(calls)].cmd = "rmi"
                            /\ calls[Len(calls)].target = BaseRef(pos)
    /\ pc \in {"build", "manifest_create"} => ~MissingProducer(pos, vi, Len(calls) + 1)
    /\ \A i \in CallIdx :
            (calls[i].variant >= 1 /\ calls[i].cmd \in {"build", "manifest create"}) =>
                ~MissingProducer(calls[i].line, calls[i].variant, i)
    /\ (pc = "exited" /\ raised = "none") =>
            \A k \in 1..pos : LineConfig(k) # NoDict =>
                \A v \in 1..Len(LineConfig(k).variants) : Declared(k, v) # <<>> =>
                    ~MissingProducer(k, v, Len(calls) + 1)

\* The second variant of a ref with a base names itself as producer: the
\* first variant is published, the base image removed, the hook has exited.
C25_Witness ==
    /\ pc = "exited"
    /\ exit_code = 1
    /\ raised = "RuntimeError"
    /\ vi = 2
    /\ Declared(pos, 2)[1][2] = LineConfig(pos).variants[2].suffix
    /\ calls[Len(calls)].cmd = "rmi"
    /\ calls[Len(calls) - 1].cmd \in Publish
    /\ calls[Len(calls) - 1].variant = 1

\* ─── C26 ───────────────────────────────────────────────────────────────────

\* The results labelled "base".
BaseResults == {r \in DOMAIN results : results[r].variant = BaseLabel}

\* C26: when the base build of a ref fails, exactly one failure result
\* labelled "base" with an empty tag list is recorded, no variant of that ref
\* is built or pushed, no removal of a base image is attempted (none was
\* built) and the exit status is non-zero.
C26_BaseFailure ==
    \A i \in CallIdx : (calls[i].cmd = "build" /\ calls[i].variant = 0 /\ ~calls[i].ok) =>
        /\ i = Len(calls)
        /\ calls[i].line = pos
        /\ base_image = None
        /\ Cardinality(BaseResults) = 1
        /\ Len(results) \in BaseResults
        /\ results[Len(results)].tags = <<>>
        /\ ~results[Len(results)].success
        /\ results[Len(results)].error # ""
        /\ pc \in {"finally", "exited"}
        /\ pc = "exited" => exit_code = 1

\* The base build of the second line failed after the first line was built,
\* and the hook has exited.
C26_Witness ==
    /\ pc = "exited"
    /\ pos = 2
    /\ Len(results) > 1
    /\ calls[Len(calls)].cmd = "build"
    /\ calls[Len(calls)].variant = 0
    /\ ~calls[Len(calls)].ok

\* ─── C27 ───────────────────────────────────────────────────────────────────

\* main() is in the variant loop of the current line.
InVariantLoop ==
    pc \in {"variant", "build", "push", "manifest_create", "platform_build",
            "manifest_tag", "manifest_push", "manifest_rm"}

\* The engine operation of variant u of line k has completed successfully:
\* built, every tag pushed and, for a manifest list, the local list removed.
Completed(k, u) ==
    /\ Published(k, u, Len(calls) + 1)
    /\ Len(LineConfig(k).platforms) > 1 =>
            \E i \in CallIdx : /\ calls[i].line = k /\ calls[i].variant = u
                                /\ calls[i].cmd = "manifest rm" /\ calls[i].ok

CompletedVariants(k) == {u \in 1..Len(LineConfig(k).variants) : Completed(k, u)}

\* C27: from the start of a ref's variant loop on, the built-image map holds
\* exactly the suffixes of that ref's variants whose engine operation has
\* completed successfully, each mapped to the variant's first tag, and each
\* such variant has exactly one success result, carrying its three tags; the
\* map is empty when the loop starts, so a context resolves only to the base
\* or to a completed variant of the same ref.
C27_BuiltImages ==
    InVariantLoop =>
        LET done == CompletedVariants(pos)
            n == Cardinality(done)
        IN  /\ DOMAIN built_images = {LineConfig(pos).variants[u].suffix : u \in done}
            /\ done = 1..n
            /\ Len(results) >= n
            /\ \A u \in done :
                    /\ built_images[LineConfig(pos).variants[u].suffix] = FirstTag(pos, u)
                    /\ results[Len(results) - n + u].success
                    /\ results[Len(results) - n + u].variant = Label(LineConfig(pos).variants[u])
                    /\ results[Len(results) - n + u].tags = LineTags(pos, u)
                    /\ Len(LineTags(pos, u)) = 3
            /\ (pc = "variant" /\ vi = 1) => built_images = <<>>
            /\ (pc # "variant" /\ build_contexts # NoDict) =>
                    \A name \in DOMAIN build_contexts :
                        \/ build_contexts[name] = BaseRef(pos)
                        \/ \E u \in done : build_contexts[name] = FirstTag(pos, u)

\* The second line's variant loop starts with an empty map although the first
\* line left two built variants behind.
C27_Witness ==
    /\ pos = 2
    /\ pc = "variant"
    /\ vi = 1
    /\ built_images = <<>>
    /\ LineConfig(1) # NoDict
    /\ Cardinality(CompletedVariants(1)) = 2
    /\ ~has_base(LineConfig(2))

\* ─── C28 ───────────────────────────────────────────────────────────────────

\* The removal of the base image of line k was issued and it is what the
\* outcome says.
RemovedOk(k) == \E i \in Removals(k) : calls[i].ok

RemovalFailed(k) == \E i \in Removals(k) : ~calls[i].ok

\* The local base images the invocation has built and not removed.
LocalBaseImages == {BaseRef(k) : k \in {l \in 1..pos : BaseBuilt(l) /\ ~RemovedOk(l)}}

\* Every external call for a line is issued after every call for the lines
\* before it.
InStdinOrder == \A i \in CallIdx : i > 1 => calls[i - 1].line <= calls[i].line

\* C28 as stated: refs are processed strictly one after the other in stdin
\* order, and at most one local base image created by the invocation exists
\* at any time.
C28_Original ==
    /\ InStdinOrder
    /\ Cardinality(LocalBaseImages) <= 1

\* C28 (amended): refs are processed strictly one after the other in stdin
\* order, and at most one local base image whose removal has not failed
\* exists at any time: a base image that podman rmi failed to remove stays
\* behind while later refs build theirs.
C28_Sequential ==
    /\ InStdinOrder
    /\ \A i \in CallIdx : calls[i].line \in 1..pos
    /\ Cardinality({k \in 1..pos : BaseBuilt(k) /\ ~RemovedOk(k) /\ ~RemovalFailed(k)}) <= 1
    /\ \A k \in 1..(pos - 1) : BaseBuilt(k) => (RemovedOk(k) \/ RemovalFailed(k))

\* The second line is being built against its own base image after the first
\* line's base image was built and removed.
C28_Witness ==
    /\ pos = 2
    /\ pc = "variant"
    /\ BaseBuilt(1)
    /\ RemovedOk(1)
    /\ BaseBuilt(2)
    /\ LocalBaseImages = {BaseRef(2)}

\* ─── C29 ───────────────────────────────────────────────────────────────────

\* The package metadata version of the revision pushed on line k.
VersionOfLine(k) == PackageVersion(RevIndex(LineRef(k).new_rev))

\* C29: the tree a ref's builds see is the tree of its pushed revision, so the
\* package metadata in the work directory during the builds of a ref are those
\* of its revision, and the VERSION build argument of a variant build is the
\* version the revision of its own line declares.
C29_Original ==
    /\ pc \in {"base", "variant", "build", "push", "finally"} =>
            work_dir.package_json = VersionOfLine(pos)
    /\ \A i \in CallIdx :
            (VariantBuild(i) /\ "VERSION" \in DOMAIN calls[i].build_args) =>
                calls[i].build_args["VERSION"] = VersionOfLine(calls[i].line)

\* ─── C30 ───────────────────────────────────────────────────────────────────

EdgeName == <<"e", "d", "g", "e">>

\* The ref is a branch push: it lies under refs/heads/.
BranchPush(r) == UnderHeads(r)

\* C30: a ref is exactly one of release, RC or branch push, and the
\* branch-name and edge tags are computed only for a branch push: a tag ref
\* whose name neither starts with "v" nor contains "-rc" gets neither.
C30_Original ==
    pc # "variant" =>
        /\ Cardinality({c \in {"release", "rc", "branch"} :
                            \/ c = "release" /\ is_release(ref)
                            \/ c = "rc" /\ is_rc(ref)
                            \/ c = "branch" /\ BranchPush(ref)}) = 1
        /\ tags[3] = Tagged(EdgeName) => BranchPush(ref)
        /\ ( /\ UnderTags(ref)
             /\ ShortName(ref)[1] # "v"
             /\ ~Contains(ShortName(ref), <<"-", "r", "c">>) ) =>
                /\ tags[2] # Tagged(branch(ref))
                /\ tags[3] # Tagged(EdgeName)

====
